---- MODULE Spec2Model ----
(***************************************************************************)
(* Materials-extraction batch pipeline: Document Loader, Structuring       *)
(* Agent (fix_json), Refinement Loop, Validation Agent and Pipeline Driver *)
(* of o3mini_multiple_request_no_source_text.py and                        *)
(* o3mini_onetime_request_no_source_text.py.                               *)
(*                                                                         *)
(* Text is a sequence of atoms.  An atom is one character (a brace, a      *)
(* slash, a blank) or one indivisible word (a code fence, json, null, x).  *)
(* Python values are tagged records: None/null, numbers, strings, lists    *)
(* and dicts (a dict is its insertion-ordered sequence of key/value        *)
(* pairs).                                                                 *)
(***************************************************************************)
EXTENDS Integers, Sequences, FiniteSets, TLC

VARIABLES variant, files, idx, pc, failed_files, failed_log,
          full_text, article_database, mat, validated_database,
          result_json, extracted_json, validated_json,
          val_response, fix_response, prompt, attempts, called, failed_at,
          content, fixed, document

vars == <<variant, files, idx, pc, failed_files, failed_log,
          full_text, article_database, mat, validated_database,
          result_json, extracted_json, validated_json,
          val_response, fix_response, prompt, attempts, called, failed_at,
          content, fixed, document>>

----------------------------------------------------------------------------
(* Python values *)

None == [t |-> "null"]
Num(ds) == [t |-> "num", d |-> ds]
Str(cs) == [t |-> "str", s |-> cs]
List(xs) == [t |-> "list", a |-> xs]
Dict(ps) == [t |-> "dict", o |-> ps]

\* bool(v): None, "", [] and {} are falsy (no atom spells the number 0)
Truthy(v) ==
    CASE v.t = "null" -> FALSE
      [] v.t = "num"  -> TRUE
      [] v.t = "str"  -> Len(v.s) > 0
      [] v.t = "list" -> Len(v.a) > 0
      [] v.t = "dict" -> Len(v.o) > 0

Hashable(v) == v.t \in {"null", "num", "str"}

DictHas(ps, k) == \E i \in 1..Len(ps) : ps[i][1] = k

DictGet(ps, k, default) ==
    IF DictHas(ps, k)
    THEN ps[CHOOSE i \in 1..Len(ps) : ps[i][1] = k][2]
    ELSE default

\* d[k] = v: an existing key keeps its position, a new key is appended
DictSet(ps, k, v) ==
    IF DictHas(ps, k)
    THEN [i \in 1..Len(ps) |-> IF ps[i][1] = k THEN <<k, v>> ELSE ps[i]]
    ELSE Append(ps, <<k, v>>)

----------------------------------------------------------------------------
(* Text helpers *)

Min(S) == CHOOSE x \in S : \A y \in S : x <= y
Max(S) == CHOOSE x \in S : \A y \in S : x >= y

\* the atom that stands for three backticks
FENCE == "<fence>"
QUOTE == "\""

\* \s of the regular expressions and the whitespace json.loads skips
WS == {" ", "\n"}

\* first index >= i that holds no whitespace (Len(s) + 1 when there is none)
SkipWs(s, i) ==
    LET rest == {j \in i..Len(s) : s[j] \notin WS}
    IN  IF rest = {} THEN Len(s) + 1 ELSE Min(rest)

\* str.strip()
strip(s) ==
    LET solid == {j \in 1..Len(s) : s[j] \notin WS}
    IN  IF solid = {} THEN <<>> ELSE SubSeq(s, Min(solid), Max(solid))

\* first index >= i holding a newline, the end of the line that .*$ stops at
EndOfLine(s, i) ==
    LET nl == {j \in i..Len(s) : s[j] = "\n"}
    IN  IF nl = {} THEN Len(s) + 1 ELSE Min(nl)

\* re.search of fence json \s* ([\s\S]*?) \s* fence: the leftmost opening
\* fence tagged json that a later fence closes; the lazy group runs from the
\* end of the greedy \s* to the last non-space before the first later fence
JsonBlock(text) ==
    LET opens == {i \in 1..(Len(text) - 1) :
                     /\ text[i] = FENCE
                     /\ text[i + 1] = "json"
                     /\ \E j \in (i + 2)..Len(text) : text[j] = FENCE}
    IN  IF opens = {}
        THEN [found |-> FALSE, group |-> <<>>]
        ELSE LET i == Min(opens)
                 j == Min({k \in (i + 2)..Len(text) : text[k] = FENCE})
                 gs == SkipWs(text, i + 2)
                 solid == {k \in gs..(j - 1) : text[k] \notin WS}
             IN  [found |-> TRUE,
                  group |-> IF solid = {} THEN <<>>
                            ELSE SubSeq(text, gs, Max(solid))]

\* re.sub of \s*//.*$ by the empty string, MULTILINE: a match starts at
\* position i when the whitespace run from i is followed by two slashes,
\* and it runs to the end of that line
RECURSIVE StripComments(_, _)
StripComments(s, i) ==
    IF i > Len(s) THEN <<>>
    ELSE LET w == SkipWs(s, i)
         IN  IF w < Len(s) /\ s[w] = "/" /\ s[w + 1] = "/"
             THEN StripComments(s, EndOfLine(s, w))
             ELSE <<s[i]>> \o StripComments(s, i + 1)

----------------------------------------------------------------------------
(* json.loads *)

Ok(v, n) == [ok |-> TRUE, v |-> v, n |-> n]
Err == [ok |-> FALSE, v |-> None, n |-> 0]

\* a string literal whose opening quote is at i - 1: no escapes are among
\* the atoms, a raw newline inside a string is rejected (strict mode)
ScanString(s, i) ==
    LET q == {j \in i..Len(s) : s[j] = QUOTE}
    IN  IF q = {} THEN Err
        ELSE LET e == Min(q)
             IN  IF \E j \in i..(e - 1) : s[j] = "\n" THEN Err
                 ELSE Ok(Str(SubSeq(s, i, e - 1)), e + 1)

\* a number literal: the maximal run of digit atoms from i
ScanNumber(s, i) ==
    LET stop == {j \in i..Len(s) : s[j] # "1"}
        e == IF stop = {} THEN Len(s) + 1 ELSE Min(stop)
    IN  Ok(Num(SubSeq(s, i, e - 1)), e)

RECURSIVE ScanOnce(_, _)
RECURSIVE JSONObject(_, _, _)
RECURSIVE JSONArray(_, _, _)

\* the members of an object, i at the opening quote of the next key
JSONObject(s, i, acc) ==
    IF i > Len(s) \/ s[i] # QUOTE THEN Err
    ELSE LET k == ScanString(s, i + 1)
         IN  IF ~k.ok THEN Err
             ELSE LET c == SkipWs(s, k.n)
                  IN  IF c > Len(s) \/ s[c] # ":" THEN Err
                      ELSE LET v == ScanOnce(s, SkipWs(s, c + 1))
                           IN  IF ~v.ok THEN Err
                               ELSE LET e == SkipWs(s, v.n)
                                        acc2 == DictSet(acc, k.v, v.v)
                                    IN  IF e > Len(s) THEN Err
                                        ELSE IF s[e] = "}" THEN Ok(Dict(acc2), e + 1)
                                        ELSE IF s[e] = ","
                                             THEN JSONObject(s, SkipWs(s, e + 1), acc2)
                                        ELSE Err

\* the elements of an array, i at the first atom of the next element
JSONArray(s, i, acc) ==
    LET v == ScanOnce(s, i)
    IN  IF ~v.ok THEN Err
        ELSE LET e == SkipWs(s, v.n)
                 acc2 == Append(acc, v.v)
             IN  IF e > Len(s) THEN Err
                 ELSE IF s[e] = "]" THEN Ok(List(acc2), e + 1)
                 ELSE IF s[e] = "," THEN JSONArray(s, SkipWs(s, e + 1), acc2)
                 ELSE Err

ScanOnce(s, i) ==
    IF i > Len(s) THEN Err
    ELSE CASE s[i] = QUOTE -> ScanString(s, i + 1)
           [] s[i] = "{" ->
                LET j == SkipWs(s, i + 1)
                IN  IF j <= Len(s) /\ s[j] = "}" THEN Ok(Dict(<<>>), j + 1)
                    ELSE JSONObject(s, j, <<>>)
           [] s[i] = "[" ->
                LET j == SkipWs(s, i + 1)
                IN  IF j <= Len(s) /\ s[j] = "]" THEN Ok(List(<<>>), j + 1)
                    ELSE JSONArray(s, j, <<>>)
           [] s[i] = "null" -> Ok(None, i + 1)
           [] s[i] = "1" -> ScanNumber(s, i)
           [] OTHER -> Err

\* json.loads(s): one value between optional whitespace, nothing after it
json_loads(s) ==
    LET r == ScanOnce(s, SkipWs(s, 1))
    IN  IF r.ok /\ SkipWs(s, r.n) = Len(s) + 1 THEN r ELSE Err

----------------------------------------------------------------------------
(* Backend *)

\* the outcome of client.chat.completions.create: it raises, or it returns
\* the text of response.choices[0].message.content
Raises == [raises |-> TRUE, text |-> <<>>]
Returns(text) == [raises |-> FALSE, text |-> text]

\* no call has been made
NoResponse == [raises |-> FALSE, text |-> <<"(no call)">>]

\* the parse inside fix_json: json.loads of the payload, the block when the
\* response holds one, stripped of its comments
parsed_json(response) ==
    LET json_block == JsonBlock(response.text)
        json_str == IF json_block.found THEN strip(json_block.group)
                    ELSE strip(response.text)
    IN  json_loads(StripComments(json_str, 1))

\* fix_json, had it substituted an empty record for what it cannot parse
fix_json_empty_record(response) ==
    IF response.raises THEN List(<<Dict(<<>>)>>)
    ELSE LET json_block == JsonBlock(response.text)
             json_str == IF json_block.found THEN strip(json_block.group)
                         ELSE strip(response.text)
             parsed == json_loads(StripComments(json_str, 1))
         IN  IF ~parsed.ok THEN List(<<Dict(<<>>)>>)
             ELSE IF parsed.v.t = "dict" THEN List(<<parsed.v>>)
             ELSE parsed.v

\* JsonFixAgent.fix_json from the outcome of its backend call on: any
\* exception inside the try block yields None
fix_json(response) ==
    IF response.raises THEN None
    ELSE LET json_block == JsonBlock(response.text)
             json_str == IF json_block.found THEN strip(json_block.group)
                         ELSE strip(response.text)
             parsed == json_loads(StripComments(json_str, 1))
         IN  IF ~parsed.ok THEN None
             ELSE IF parsed.v.t = "dict" THEN List(<<parsed.v>>)
             ELSE parsed.v

\* validate, had it dropped the database whenever it cannot return a
\* corrected one
validate_response_discard(response, database) ==
    IF response.raises THEN Dict(<<>>)
    ELSE LET json_block == JsonBlock(response.text)
             json_str == IF json_block.found THEN strip(json_block.group)
                         ELSE strip(response.text)
             validated_data == json_loads(json_str)
         IN  IF validated_data.ok THEN validated_data.v ELSE Dict(<<>>)

\* ValidationAgent.validate from the outcome of its backend call on: the
\* response is not stripped of comments; a failed parse or a raised call
\* returns the database it was given
validate_response(response, database) ==
    IF response.raises THEN database
    ELSE LET json_block == JsonBlock(response.text)
             json_str == IF json_block.found THEN strip(json_block.group)
                         ELSE strip(response.text)
             validated_data == json_loads(json_str)
         IN  IF validated_data.ok THEN validated_data.v ELSE database

----------------------------------------------------------------------------
(* Document Loader *)

Digits == <<"1", "2", "3", "4", "5", "6", "7", "8", "9">>

\* str(n) of a small positive integer, one digit atom
ToStr(n) == IF n = 0 THEN "0" ELSE Digits[n]

\* "\n".join(items)
RECURSIVE Join(_)
Join(items) ==
    IF Len(items) = 0 THEN <<>>
    ELSE IF Len(items) = 1 THEN items[1]
    ELSE items[1] \o <<"\n">> \o Join(Tail(items))

\* extract_tables, had it numbered the tables it keeps from 0 on
extract_tables_renumbered(pdf) ==
    IF pdf.tabula_raises THEN <<>>
    ELSE LET kept == SelectSeq(pdf.dfs, LAMBDA df : Len(df) > 0)
         IN  [k \in 1..Len(kept) |-> [table_index |-> k - 1, data |-> kept[k]]]

\* ExtractAgent.extract_tables: the non-empty data frames, each under its
\* index in tabula's list; an exception of tabula leaves no tables
RECURSIVE TablesFrom(_, _)
TablesFrom(dfs, i) ==
    IF i > Len(dfs) THEN <<>>
    ELSE (IF Len(dfs[i]) > 0
          THEN <<[table_index |-> i - 1, data |-> dfs[i]]>>
          ELSE <<>>) \o TablesFrom(dfs, i + 1)

extract_tables(pdf) == IF pdf.tabula_raises THEN <<>> ELSE TablesFrom(pdf.dfs, 1)

\* ExtractAgent.extract_text: one entry per page, its text stripped
extract_text(pdf) ==
    [n \in 1..Len(pdf.pages) |-> [page_number |-> n, text |-> strip(pdf.pages[n])]]

\* the result dict of extract_from_pdf, written to {pdf_name}_result.json
ExtractResult(pdf_name, pdf) ==
    [file_name |-> pdf_name,
     images |-> pdf.images,
     tables |-> extract_tables(pdf),
     text |-> extract_text(pdf)]

\* os.path.basename: a path is its folder and its file name
basename(path) == <<path[Len(path)]>>

\* combined_text of extract_from_pdf: the pages, then the tables, then the
\* image listing, joined by newlines
CombinedText(result) ==
    LET page_items == [n \in 1..Len(result.text) |->
                          <<"Page ", ToStr(result.text[n].page_number), ":", "\n">>
                              \o result.text[n].text]
        table_items == [k \in 1..Len(result.tables) |->
                           <<"\n", "Table ", ToStr(result.tables[k].table_index), ":", "\n">>
                               \o result.tables[k].data]
        image_items == [k \in 1..Len(result.images) |->
                           <<"- ">> \o basename(result.images[k])]
    IN  Join(page_items \o table_items \o << <<"\n", "Images found:">> >> \o image_items)

\* what the underlying parse yields: no page text, no table and no image
EmptyParse(pdf) ==
    /\ \A n \in 1..Len(pdf.pages) : strip(pdf.pages[n]) = <<>>
    /\ extract_tables(pdf) = <<>>
    /\ pdf.images = <<>>

----------------------------------------------------------------------------
(* The source directory *)

PdfA == <<"a", ".pdf">>
PdfB == <<"b", ".pdf">>
Notes == <<"notes", ".txt">>
FileNames == {PdfA, PdfB, Notes}

\* a two-page paper with one table on page 2 and no images
PaperPdf ==
    [pages |-> << <<"x", " ", "x">>, <<" ", "a", "\n">> >>,
     dfs |-> << <<>>, <<"[", "{", "}", "]">> >>,
     tabula_raises |-> FALSE,
     images |-> <<>>]

\* a one-page scan with no text layer, no tables and no images
BlankPdf ==
    [pages |-> << <<"\n">> >>,
     dfs |-> <<>>,
     tabula_raises |-> FALSE,
     images |-> <<>>]

\* what is stored under each file name of the directory
PdfOf(filename) == IF filename = PdfB THEN BlankPdf ELSE PaperPdf

\* the directory holds at most MaxFiles entries
MaxFiles == 2

\* os.listdir(folder_path): the entries of the directory, in any order
Listings ==
    {l \in UNION {[1..n -> FileNames] : n \in 0..MaxFiles} :
        \A i, j \in 1..Len(l) : i # j => l[i] # l[j]}

\* filename.endswith(".pdf")
EndsWithPdf(filename) == filename[Len(filename)] = ".pdf"

\* os.path.basename(file_path).replace(".pdf", "")
FileName(filename) == SelectSeq(filename, LAMBDA a : a # ".pdf")

----------------------------------------------------------------------------
(* Schemas *)

\* a schema is a tree: a leaf names the values it takes, a node its fields
Leaf(type) == [leaf |-> TRUE, type |-> type]
Node(fields) == [leaf |-> FALSE, fields |-> fields]

FreeForm == Leaf("any")
Value == Leaf("number or string or null")
Open == Leaf("object or null")
Array == Leaf("array or null")

CompositionSchema ==
    Node([Fe |-> Value, Ni |-> Value, Co |-> Value, Mn |-> Value, Cr |-> Value,
          Al |-> Value, Ti |-> Value, Cu |-> Value, Si |-> Value, V |-> Value,
          Nb |-> Value, B |-> Value, Mo |-> Value, Ta |-> Value, Other |-> Open])

ProcessingSchema ==
    Node([Zero_Processing |-> FreeForm,
          Homogenization |-> FreeForm,
          Homogenization_Temperature |-> Value,
          Homogenization_Time |-> Value,
          Rolling |-> FreeForm,
          Rolling_Temperature |-> Value,
          Rolling_Percent |-> Value,
          Recrystallization |-> FreeForm,
          Recrystallization_Temperature |-> Value,
          Recrystallization_Time |-> Value,
          Aging |-> FreeForm,
          Aging_Temperature |-> Value,
          Aging_Time |-> Value,
          Additional_Processing |-> Open])

composition_processing_schema ==
    Node([Material |-> FreeForm,
          Composition |-> CompositionSchema,
          Processing |-> ProcessingSchema])

PrecipitateSchema ==
    Node([Type |-> FreeForm,
          Precipitate_Size |-> Value,
          Precipitate_Volume_Percentage |-> Value])

phases_schema ==
    Node([Matrix |-> Node([Type |-> FreeForm, Matrix_Volume_Percentage |-> Value]),
          First_Precipitate |-> PrecipitateSchema,
          Second_Precipitate |-> PrecipitateSchema,
          Third_Precipitate |-> PrecipitateSchema,
          Additional_Phases |-> Array])

properties_schema ==
    Node([Room_Temperature |->
              Node([Ultimate_Tensile_Strength |-> Value,
                    Ultimate_Compressive_Strength |-> Value,
                    Tensile_Yield_Strength |-> Value,
                    Compressive_Yield_Strength |-> Value,
                    Hardness |-> Value,
                    Tensile_Ductility |-> Value,
                    Compressive_Ductility |-> Value,
                    Additional_Properties |-> Open]),
          Non_Room_Temperature |->
              Node([Cryo_HT_Strength_Temperature |-> Value,
                    Cryo_HT_Strength |-> Value,
                    Cryo_HT_Ductility |-> Value,
                    Temperature_Dependent_Properties |-> Array,
                    Additional_Properties |-> Open]),
          Other_Properties |-> Open])

\* the schema of the onetime request
combined_schema ==
    Node([Material |-> FreeForm,
          Composition |-> CompositionSchema,
          Processing |-> ProcessingSchema,
          Phases |-> phases_schema,
          Properties |-> properties_schema])

----------------------------------------------------------------------------
(* Backend responses *)

\* [{"Material": "a"}, {"Material": "b"}] in a fenced block after a remark
TwoMaterials ==
    <<"x", "\n", FENCE, "json", "\n",
      "[", "{", QUOTE, "Material", QUOTE, ":", " ", QUOTE, "a", QUOTE, "}", ",", " ",
      "{", QUOTE, "Material", QUOTE, ":", " ", QUOTE, "b", QUOTE, "}", "]",
      "\n", FENCE>>

\* {"a": 1}, bare
OneObject == <<"{", QUOTE, "a", QUOTE, ":", " ", "1", "}">>

\* prose, no structured data
Garbage == <<"x", " ", "x">>

\* the number 1
Scalar == <<"1">>

\* {"a": {}} in a fenced block: a database the validator returns
CorrectedDatabase ==
    <<FENCE, "json", "\n", "{", QUOTE, "a", QUOTE, ":", " ", "{", "}", "}", "\n", FENCE>>

\* {"a": 1 // x
\* }: structured data with a trailing comment
Commented ==
    <<"{", QUOTE, "a", QUOTE, ":", " ", "1", " ", "/", "/", " ", "x", "\n", "}">>

\* what the backend answers the structuring call of fix_json
StructuringResponses ==
    {Raises, Returns(TwoMaterials), Returns(OneObject), Returns(Garbage), Returns(Scalar)}

\* what the backend answers the fix_json calls of the Refinement Loop
RefinementResponses == {Raises, Returns(OneObject), Returns(Garbage)}

\* what the backend answers the validation call
ValidationResponses ==
    {Raises, Returns(CorrectedDatabase), Returns(Garbage), Returns(Commented),
     Returns(Scalar)}

----------------------------------------------------------------------------
(* process_file *)

\* the database-building loop of process_file: entry.get raises on an entry
\* that is no dict, the assignment raises on an unhashable material_id; the
\* fallback identifier counts the database (multiple) or the entries (onetime)
RECURSIVE BuildFrom(_, _, _, _, _)
BuildFrom(v, file_name, entries, i, db) ==
    IF i > Len(entries) THEN [raises |-> FALSE, db |-> Dict(db)]
    ELSE LET entry == entries[i]
         IN  IF entry.t # "dict" THEN [raises |-> TRUE, db |-> Dict(db)]
             ELSE LET n == IF v = "multiple" THEN Len(db) + 1 ELSE i
                      material_id ==
                          DictGet(entry.o, Str(<<"Material">>),
                                  Str(file_name \o <<"_Sample_", ToStr(n)>>))
                      record ==
                          IF v = "multiple"
                          THEN Dict(<< <<Str(<<"composition_processing">>), entry>> >>)
                          ELSE entry
                  IN  IF ~Hashable(material_id) THEN [raises |-> TRUE, db |-> Dict(db)]
                      ELSE BuildFrom(v, file_name, entries, i + 1,
                                     DictSet(db, material_id, record))

\* "if structured_data: for entry in structured_data: ...": a number is not
\* iterable, a string iterates over characters that have no get
BuildDatabase(v, file_name, structured_data) ==
    IF ~Truthy(structured_data) THEN [raises |-> FALSE, db |-> Dict(<<>>)]
    ELSE IF structured_data.t # "list" THEN [raises |-> TRUE, db |-> Dict(<<>>)]
    ELSE BuildFrom(v, file_name, structured_data.a, 1, <<>>)

\* the attachment, had it put the new sub-tree in the place of the record
AttachFresh(material_data, field, data) ==
    IF ~Truthy(data) THEN material_data
    ELSE Dict(<< <<Str(<<field>>), IF data.t = "list" THEN data.a[1] ELSE data>> >>)

\* "if data: material_data[field] = data[0] if isinstance(data, list) else data"
Attach(material_data, field, data) ==
    IF ~Truthy(data) THEN material_data
    ELSE Dict(DictSet(material_data.o, Str(<<field>>),
                      IF data.t = "list" THEN data.a[1] ELSE data))

\* the record of the prompt, had it been the record as structuring built it
PromptRecordAsBuilt(database, m) == Dict(<<database.o[m][2].o[1]>>)

\* json.dumps(material_data): the record of the m-th material as it stands
PromptRecord(database, m) == database.o[m][2]

\* the database with the record of its m-th material replaced
WithMaterial(database, m, material_data) ==
    Dict([database.o EXCEPT ![m] = <<database.o[m][1], material_data>>])

file_name == FileName(files[idx])

\* get_phases_prompt and get_properties_prompt: the instruction embeds the
\* material's identifier, json.dumps of its record and the full text
Prompt(kind, material_id, material_data, text) ==
    [kind |-> kind, material_id |-> material_id,
     material_data |-> material_data, full_text |-> text]

\* no prompt has been built
NoPrompt == [kind |-> "none"]

\* the locals of process_file are gone once it has returned or raised
Leave ==
    /\ full_text' = <<>>
    /\ article_database' = Dict(<<>>)
    /\ mat' = 0
    /\ validated_database' = None
    /\ val_response' = NoResponse
    /\ fix_response' = NoResponse
    /\ prompt' = NoPrompt

\* the handler, had it left the for loop at the first failure
HandleExceptionBreak ==
    /\ failed_files' = Append(failed_files, files[idx])
    /\ pc' = "loop"
    /\ idx' = Len(files)

\* the handler, had it swallowed the failure without recording the file
HandleExceptionSilent ==
    /\ failed_files' = failed_files
    /\ pc' = "loop"
    /\ idx' = idx

\* main: except Exception: failed_files.append(filename); the for loop goes
\* on after the entry it is at
HandleException ==
    /\ failed_files' = Append(failed_files, files[idx])
    /\ pc' = "loop"
    /\ idx' = idx

\* an exception leaves process_file from `stage`
Raise(stage) ==
    /\ failed_at' = [failed_at EXCEPT ![idx] = stage]
    /\ HandleException
    /\ Leave

\* process_file returns
Return ==
    /\ pc' = "loop"
    /\ Leave
    /\ UNCHANGED <<failed_files, failed_at>>

\* a backend call is issued for the current document
Call == called' = [called EXCEPT ![idx] = TRUE]

\* open(path, "w") and json.dump: the file at path k now holds v
Write(disk, k, v) == [x \in DOMAIN disk \cup {k} |-> IF x = k THEN v ELSE disk[x]]

NoFiles == [x \in {} |-> None]

locals == <<full_text, article_database, mat, validated_database, val_response,
            fix_response, prompt>>
history == <<attempts, called, failed_at>>
history_but_failed_at == <<attempts, called>>
ledger == <<failed_files, failed_log>>
snapshots == <<extracted_json, validated_json>>
fixture == <<content, fixed, document>>

Init ==
    /\ variant \in {"multiple", "onetime"}
    /\ files \in Listings
    /\ idx = 0
    /\ pc = "loop"
    /\ failed_files = <<>>
    /\ failed_log = <<>>
    /\ full_text = <<>>
    /\ article_database = Dict(<<>>)
    /\ mat = 0
    /\ validated_database = None
    /\ val_response = NoResponse
    /\ fix_response = NoResponse
    /\ prompt = NoPrompt
    /\ result_json = NoFiles
    /\ extracted_json = NoFiles
    /\ validated_json = NoFiles
    /\ attempts = [i \in 1..Len(files) |-> 0]
    /\ called = [i \in 1..Len(files) |-> FALSE]
    /\ failed_at = [i \in 1..Len(files) |-> "none"]
    /\ content = Raises
    /\ fixed = [done |-> FALSE, value |-> None]
    /\ document = PaperPdf

\* main: the next entry of os.listdir; a .pdf entry is handed to process_file
NextFile ==
    /\ pc = "loop"
    /\ idx < Len(files)
    /\ idx' = idx + 1
    /\ IF EndsWithPdf(files[idx + 1])
       THEN /\ pc' = "extract"
            /\ attempts' = [attempts EXCEPT ![idx + 1] = @ + 1]
       ELSE /\ pc' = "loop"
            /\ UNCHANGED attempts
    /\ UNCHANGED <<variant, files, ledger, locals, result_json, snapshots,
                   called, failed_at, fixture>>

\* process_file, step 1: extract_from_pdf raises, or writes its result file
\* and returns the combined text; an empty text skips the file
ExtractFromPdf ==
    /\ pc = "extract"
    /\ \E raises \in BOOLEAN :
          IF raises
          THEN /\ Raise("extract")
               /\ UNCHANGED result_json
          ELSE LET result == ExtractResult(file_name, PdfOf(files[idx]))
                   combined_text == CombinedText(result)
               IN  /\ result_json' = Write(result_json, file_name, result)
                   /\ idx' = idx
                   /\ IF combined_text = <<>>
                      THEN Return
                      ELSE /\ full_text' = combined_text
                           /\ pc' = "extraction_call"
                           /\ UNCHANGED <<failed_files, failed_at, article_database,
                                          mat, validated_database, val_response,
                                          fix_response, prompt>>
    /\ UNCHANGED <<variant, files, failed_log, snapshots, attempts, called,
                   fixture>>

\* process_file, step 2: the extraction call to the backend
ExtractionCall ==
    /\ pc = "extraction_call"
    /\ Call
    /\ \E raises \in BOOLEAN :
          IF raises
          THEN Raise("extraction_call")
          ELSE /\ pc' = "structure"
               /\ UNCHANGED <<idx, failed_files, failed_at, locals>>
    /\ UNCHANGED <<variant, files, failed_log, result_json, snapshots,
                   attempts, fixture>>

\* process_file: fix_json on the extraction, then the database is built
Structure ==
    /\ pc = "structure"
    /\ \E response \in StructuringResponses :
          LET built == BuildDatabase(variant, file_name, fix_json(response))
          IN  IF built.raises
              THEN Raise("structure")
              ELSE /\ fix_response' = response
                   /\ article_database' = built.db
                   /\ IF variant = "multiple" /\ Len(built.db.o) > 0
                      THEN pc' = "phases_call" /\ mat' = 1
                      ELSE pc' = "save_extracted" /\ mat' = 0
                   /\ UNCHANGED <<idx, failed_files, failed_at, full_text,
                                  validated_database, val_response, prompt>>
    /\ UNCHANGED <<variant, files, failed_log, result_json, snapshots,
                   history_but_failed_at, fixture>>

\* process_file, step 3: the phases call for the current material
PhasesCall ==
    /\ pc = "phases_call"
    /\ \E raises \in BOOLEAN :
          IF raises
          THEN Raise("phases_call")
          ELSE /\ pc' = "phases"
               /\ prompt' = Prompt("phases", article_database.o[mat][1],
                                   PromptRecord(article_database, mat), full_text)
               /\ UNCHANGED <<idx, failed_files, failed_at, full_text,
                              article_database, mat, validated_database,
                              val_response, fix_response>>
    /\ UNCHANGED <<variant, files, failed_log, result_json, snapshots,
                   history_but_failed_at, fixture>>

\* process_file, step 3: fix_json on the phases, attached when truthy
Phases ==
    /\ pc = "phases"
    /\ \E response \in RefinementResponses :
          /\ fix_response' = response
          /\ article_database' =
                 WithMaterial(article_database, mat,
                              Attach(article_database.o[mat][2], "phases",
                                     fix_json(response)))
    /\ pc' = "properties_call"
    /\ UNCHANGED <<variant, files, idx, ledger, full_text, mat,
                   validated_database, val_response, prompt, result_json,
                   snapshots, history, fixture>>

\* process_file, step 4: the properties call for the current material
PropertiesCall ==
    /\ pc = "properties_call"
    /\ \E raises \in BOOLEAN :
          IF raises
          THEN Raise("properties_call")
          ELSE /\ pc' = "properties"
               /\ prompt' = Prompt("properties", article_database.o[mat][1],
                                   PromptRecord(article_database, mat), full_text)
               /\ UNCHANGED <<idx, failed_files, failed_at, full_text,
                              article_database, mat, validated_database,
                              val_response, fix_response>>
    /\ UNCHANGED <<variant, files, failed_log, result_json, snapshots,
                   history_but_failed_at, fixture>>

\* process_file, step 4: fix_json on the properties, attached when truthy;
\* then the next material of the database, or the end of the loop
Properties ==
    /\ pc = "properties"
    /\ \E response \in RefinementResponses :
          /\ fix_response' = response
          /\ article_database' =
                 WithMaterial(article_database, mat,
                              Attach(article_database.o[mat][2], "properties",
                                     fix_json(response)))
    /\ IF mat < Len(article_database.o)
       THEN pc' = "phases_call" /\ mat' = mat + 1
       ELSE pc' = "save_extracted" /\ mat' = mat
    /\ UNCHANGED <<variant, files, idx, ledger, full_text,
                   validated_database, val_response, prompt, result_json,
                   snapshots, history, fixture>>

\* process_file, step 5: {file_name}_extracted.json
SaveExtracted ==
    /\ pc = "save_extracted"
    /\ extracted_json' = Write(extracted_json, file_name, article_database)
    /\ pc' = "validate"
    /\ UNCHANGED <<variant, files, idx, ledger, locals, result_json,
                   validated_json, history, fixture>>

\* validate: the document is loaded again; an empty text returns the
\* database as it is
Reload ==
    /\ pc = "validate"
    /\ \E raises \in BOOLEAN :
          IF raises
          THEN /\ Raise("validate_reload")
               /\ UNCHANGED result_json
          ELSE LET result == ExtractResult(file_name, PdfOf(files[idx]))
                   combined_text == CombinedText(result)
               IN  /\ result_json' = Write(result_json, file_name, result)
                   /\ idx' = idx
                   /\ IF combined_text = <<>>
                      THEN /\ validated_database' = article_database
                           /\ pc' = "save_validated"
                      ELSE /\ pc' = "validation_call"
                           /\ UNCHANGED validated_database
                   /\ UNCHANGED <<failed_files, failed_at, full_text,
                                  article_database, mat, val_response,
                                  fix_response, prompt>>
    /\ UNCHANGED <<variant, files, failed_log, snapshots, attempts, called,
                   fixture>>

\* validate: the validation call and the parse of its response
ValidationCall ==
    /\ pc = "validation_call"
    /\ \E response \in ValidationResponses :
          /\ val_response' = response
          /\ validated_database' = validate_response(response, article_database)
    /\ pc' = "save_validated"
    /\ UNCHANGED <<variant, files, idx, ledger, full_text, article_database, mat,
                   fix_response, prompt, result_json, snapshots, history, fixture>>

\* step 6, had it written the validated database over the extracted
\* snapshot as well
SaveValidatedInPlace ==
    /\ pc = "save_validated"
    /\ validated_json' = Write(validated_json, file_name, validated_database)
    /\ extracted_json' = Write(extracted_json, file_name, validated_database)
    /\ Return
    /\ UNCHANGED <<variant, files, idx, failed_log, result_json,
                   attempts, called, fixture>>

\* process_file, step 6: {file_name}_validated.json, then it returns
SaveValidated ==
    /\ pc = "save_validated"
    /\ validated_json' = Write(validated_json, file_name, validated_database)
    /\ Return
    /\ UNCHANGED <<variant, files, idx, failed_log, result_json, extracted_json,
                   attempts, called, fixture>>

\* main: after the loop, failed_files is written to failed_files_log
WriteFailedLog ==
    /\ pc = "loop"
    /\ idx = Len(files)
    /\ failed_log' = Append(failed_log, failed_files)
    /\ pc' = "done"
    /\ UNCHANGED <<variant, files, idx, failed_files, locals, result_json,
                   snapshots, history, fixture>>

Next ==
    \/ NextFile
    \/ ExtractFromPdf
    \/ ExtractionCall
    \/ Structure
    \/ PhasesCall
    \/ Phases
    \/ PropertiesCall
    \/ Properties
    \/ SaveExtracted
    \/ Reload
    \/ ValidationCall
    \/ SaveValidated
    \/ WriteFailedLog

Spec == Init /\ [][Next]_vars

----------------------------------------------------------------------------
(* fix_json on its own: the responses of the backend to one structuring call *)

KeyA == <<QUOTE, "a", QUOTE, ":", " ">>
KeyMaterial == <<QUOTE, "Material", QUOTE, ":", " ">>

\* a payload: the lines of its text, whether they spell structured data, and
\* the data they spell
Payload(lines, value) == [lines |-> lines, valid |-> TRUE, value |-> value]
NoPayload(lines) == [lines |-> lines, valid |-> FALSE, value |-> None]

ObjectPayload ==
    Payload(<< <<"{">>,
               KeyA \o <<"1", ",">>,
               <<QUOTE, "x", QUOTE, ":", " ", QUOTE, "a", " ", "a", QUOTE>>,
               <<"}">> >>,
            Dict(<< <<Str(<<"a">>), Num(<<"1">>)>>,
                    <<Str(<<"x">>), Str(<<"a", " ", "a">>)>> >>))

MaterialsPayload ==
    Payload(<< <<"[", "{">> \o KeyMaterial \o <<QUOTE, "a", QUOTE, "}", ",">>,
               <<"{">> \o KeyMaterial \o <<"null", "}", "]">> >>,
            List(<< Dict(<< <<Str(<<"Material">>), Str(<<"a">>)>> >>),
                    Dict(<< <<Str(<<"Material">>), None>> >>) >>))

EmptyListPayload == Payload(<< <<"[", "]">> >>, List(<<>>))

EmptyObjectPayload == Payload(<< <<"{">>, <<"}">> >>, Dict(<<>>))

NumberPayload == Payload(<< <<"1", "1">> >>, Num(<<"1", "1">>))

StringPayload == Payload(<< <<QUOTE, "a", QUOTE>> >>, Str(<<"a">>))

NullPayload == Payload(<< <<"null">> >>, None)

NumbersPayload ==
    Payload(<< <<"[", "1", ",">>, <<"1", "]">> >>,
            List(<<Num(<<"1">>), Num(<<"1">>)>>))

\* {"a": "a//x"}: a string value that holds two slashes
UrlPayload ==
    Payload(<< <<"{">> \o KeyA \o <<QUOTE, "a", "/", "/", "x", QUOTE>>, <<"}">> >>,
            Dict(<< <<Str(<<"a">>), Str(<<"a", "/", "/", "x">>)>> >>))

ProsePayload == NoPayload(<< <<"x", " ", "x">> >>)

\* {"a": 1,}: a trailing comma
TrailingCommaPayload == NoPayload(<< <<"{">> \o KeyA \o <<"1", ",">>, <<"}">> >>)

Payloads ==
    {ObjectPayload, MaterialsPayload, EmptyListPayload, EmptyObjectPayload,
     NumberPayload, StringPayload, NullPayload, NumbersPayload, UrlPayload,
     ProsePayload, TrailingCommaPayload}

\* a single-line trailing comment
Comment == <<" ", "/", "/", " ", "x">>

\* the lines of a payload, a comment after the first or after every line
CommentedLines(lines, comments) ==
    [i \in 1..Len(lines) |->
        IF comments = "all" \/ (comments = "first" /\ i = 1)
        THEN lines[i] \o Comment
        ELSE lines[i]]

\* a response of the backend: a payload, bare or in a fenced block that is
\* tagged json or not tagged, with commentary before and after it
Responses ==
    [payload : Payloads,
     comments : {"none", "first", "all"},
     fence : {"json", "plain", "none"},
     before : {<<>>, <<"x", " ", "x", "\n">>},
     after : {<<>>, <<"\n", "x">>},
     raises : {FALSE}]
    \cup
    [payload : {ObjectPayload}, comments : {"none"}, fence : {"json"},
     before : {<<>>}, after : {<<>>}, raises : {TRUE}]

\* the text of a response
Render(r) ==
    LET body == Join(CommentedLines(r.payload.lines, r.comments))
    IN  r.before
        \o (CASE r.fence = "json" -> <<FENCE, "json", "\n">> \o body \o <<"\n", FENCE>>
              [] r.fence = "plain" -> <<FENCE, "\n">> \o body \o <<"\n", FENCE>>
              [] r.fence = "none" -> body)
        \o r.after

Outcome(r) == IF r.raises THEN Raises ELSE Returns(Render(r))

InitFix ==
    /\ variant = "multiple"
    /\ files = <<>>
    /\ idx = 0
    /\ pc = "fix_json"
    /\ failed_files = <<>>
    /\ failed_log = <<>>
    /\ full_text = <<>>
    /\ article_database = Dict(<<>>)
    /\ mat = 0
    /\ validated_database = None
    /\ val_response = NoResponse
    /\ fix_response = NoResponse
    /\ prompt = NoPrompt
    /\ result_json = NoFiles
    /\ extracted_json = NoFiles
    /\ validated_json = NoFiles
    /\ attempts = <<>>
    /\ called = <<>>
    /\ failed_at = <<>>
    /\ content \in Responses
    /\ fixed = [done |-> FALSE, value |-> None]
    /\ document = PaperPdf

\* one call of JsonFixAgent.fix_json
FixJson ==
    /\ pc = "fix_json"
    /\ fixed' = [done |-> TRUE, value |-> fix_json(Outcome(content))]
    /\ pc' = "fixed"
    /\ UNCHANGED <<variant, files, idx, ledger, locals, result_json, snapshots,
                   history, content, document>>

NextFix == FixJson

SpecFix == InitFix /\ [][NextFix]_vars

----------------------------------------------------------------------------
(* extract_from_pdf on its own: the documents the Loader can be given *)

MaxPages == 2
MaxFrames == 2
MaxImages == 2

\* page.get_text() of a page: words, words between blanks, no text layer
PageTexts == {<<"x", " ", "x">>, <<" ", "a", "\n">>, <<"\n">>}

\* a data frame of tabula as json.dumps of its records: empty, or one row
Frames == {<<>>, <<"[", "{", "}", "]">>}

\* the image files extract_images writes, in the order it finds them
ImagePaths ==
    << <<"pdf_extract/a_images/", "page_1_img_1.png">>,
       <<"pdf_extract/a_images/", "page_1_img_2.png">>,
       <<"pdf_extract/a_images/", "page_2_img_1.png">> >>

Pdfs ==
    [pages : UNION {[1..n -> PageTexts] : n \in 1..MaxPages},
     dfs : UNION {[1..n -> Frames] : n \in 0..MaxFrames},
     tabula_raises : BOOLEAN,
     images : {SubSeq(ImagePaths, 1, n) : n \in 0..Min({MaxImages, Len(ImagePaths)})}]

InitLoader ==
    /\ variant = "multiple"
    /\ files = <<PdfA>>
    /\ idx = 1
    /\ pc = "extract_from_pdf"
    /\ failed_files = <<>>
    /\ failed_log = <<>>
    /\ full_text = <<>>
    /\ article_database = Dict(<<>>)
    /\ mat = 0
    /\ validated_database = None
    /\ val_response = NoResponse
    /\ fix_response = NoResponse
    /\ prompt = NoPrompt
    /\ result_json = NoFiles
    /\ extracted_json = NoFiles
    /\ validated_json = NoFiles
    /\ attempts = <<1>>
    /\ called = <<FALSE>>
    /\ failed_at = <<"none">>
    /\ content = Raises
    /\ fixed = [done |-> FALSE, value |-> None]
    /\ document \in Pdfs

\* one call of ExtractAgent.extract_from_pdf that does not raise
ExtractFromPdfOnce ==
    /\ pc = "extract_from_pdf"
    /\ LET result == ExtractResult(file_name, document)
       IN  /\ result_json' = Write(result_json, file_name, result)
           /\ full_text' = CombinedText(result)
    /\ pc' = "extracted"
    /\ UNCHANGED <<variant, files, idx, ledger, article_database, mat,
                   validated_database, val_response, fix_response, prompt,
                   snapshots, history, fixture>>

NextLoader == ExtractFromPdfOnce

SpecLoader == InitLoader /\ [][NextLoader]_vars

----------------------------------------------------------------------------
(* The database build on its own: the data fix_json can hand to process_file *)

MaxEntries == 3

Named(name) == Dict(<< <<Str(<<"Material">>), Str(name)>> >>)

\* the entries of a structured payload: a material named a or b, one that is
\* named like the fallback identifier of the second entry of document a, one
\* without a name, and a number where an entry is expected
Entries ==
    {Named(<<"a">>), Named(<<"b">>), Named(<<"a", "_Sample_", "2">>),
     Dict(<<>>), Num(<<"1">>)}

StructuredData ==
    {List(es) : es \in UNION {[1..n -> Entries] : n \in 0..MaxEntries}}

InitBuild ==
    /\ variant \in {"multiple", "onetime"}
    /\ files = <<PdfA>>
    /\ idx = 1
    /\ pc = "build"
    /\ failed_files = <<>>
    /\ failed_log = <<>>
    /\ full_text = <<>>
    /\ article_database = Dict(<<>>)
    /\ mat = 0
    /\ validated_database = None
    /\ val_response = NoResponse
    /\ fix_response = NoResponse
    /\ prompt = NoPrompt
    /\ result_json = NoFiles
    /\ extracted_json = NoFiles
    /\ validated_json = NoFiles
    /\ attempts = <<1>>
    /\ called = <<TRUE>>
    /\ failed_at = <<"none">>
    /\ content = Raises
    /\ fixed \in {[done |-> TRUE, value |-> v] : v \in StructuredData}
    /\ document = PaperPdf

\* "if structured_data: for entry in structured_data: ..." of process_file
Build ==
    /\ pc = "build"
    /\ LET built == BuildDatabase(variant, file_name, fixed.value)
       IN  IF built.raises
           THEN pc' = "raised" /\ UNCHANGED article_database
           ELSE pc' = "built" /\ article_database' = built.db
    /\ UNCHANGED <<variant, files, idx, ledger, full_text, mat,
                   validated_database, val_response, fix_response, prompt,
                   result_json, snapshots, history, fixture>>

NextBuild == Build

SpecBuild == InitBuild /\ [][NextBuild]_vars

----------------------------------------------------------------------------
(* The pipeline on a directory of two files with the same stem *)

PdfAA == <<"a", ".pdf", ".pdf">>

\* os.listdir of a directory that holds a.pdf, a.pdf.pdf or both
SameStemListings ==
    {l \in UNION {[1..n -> {PdfA, PdfAA}] : n \in 0..MaxFiles} :
        \A i, j \in 1..Len(l) : i # j => l[i] # l[j]}

InitSameStem ==
    /\ variant \in {"multiple", "onetime"}
    /\ files \in SameStemListings
    /\ idx = 0
    /\ pc = "loop"
    /\ failed_files = <<>>
    /\ failed_log = <<>>
    /\ full_text = <<>>
    /\ article_database = Dict(<<>>)
    /\ mat = 0
    /\ validated_database = None
    /\ val_response = NoResponse
    /\ fix_response = NoResponse
    /\ prompt = NoPrompt
    /\ result_json = NoFiles
    /\ extracted_json = NoFiles
    /\ validated_json = NoFiles
    /\ attempts = [i \in 1..Len(files) |-> 0]
    /\ called = [i \in 1..Len(files) |-> FALSE]
    /\ failed_at = [i \in 1..Len(files) |-> "none"]
    /\ content = Raises
    /\ fixed = [done |-> FALSE, value |-> None]
    /\ document = PaperPdf

SpecSameStem == InitSameStem /\ [][Next]_vars

----------------------------------------------------------------------------
(* Properties of the Pipeline Driver *)

Range(f) == {f[i] : i \in DOMAIN f}

\* process_file has returned or raised for the i-th entry of the directory
Finished(i) == i < idx \/ (i = idx /\ pc \in {"loop", "done"})

\* C1: the driver hands every eligible document to process_file exactly once,
\* in one pass in directory order and with no retry, whichever documents
\* fail: when the run is done every .pdf entry has been attempted once, the
\* entries after a failed one included.
C1_EachEligibleDocumentOnce ==
    /\ \A i \in 1..Len(files) : attempts[i] <= 1
    /\ \A i \in 1..idx : attempts[i] = IF EndsWithPdf(files[i]) THEN 1 ELSE 0
    /\ \A i \in (idx + 1)..Len(files) : attempts[i] = 0
    /\ pc = "done" =>
          \A i \in 1..Len(files) : EndsWithPdf(files[i]) => attempts[i] = 1

\* a run that is done, whose first document failed and whose second document
\* went through to its validated snapshot
C1_Witness ==
    /\ pc = "done"
    /\ Len(files) = 2
    /\ failed_at[1] # "none"
    /\ attempts[2] = 1
    /\ FileName(files[2]) \in DOMAIN validated_json

\* the entries of the directory whose run raised, in directory order
RaisedFiles ==
    SelectSeq(files, LAMBDA f : \E i \in 1..Len(files) :
                                    files[i] = f /\ failed_at[i] # "none")

LedgerState ==
    /\ Len(failed_log) <= 1
    /\ (Len(failed_log) = 1) <=> (pc = "done")
    /\ pc = "done" => idx = Len(files) /\ failed_log[1] = failed_files
    /\ failed_files = RaisedFiles
    /\ \A i \in 1..Len(files) : failed_at[i] # "none" => Finished(i)

LedgerStep ==
    /\ Len(failed_files') >= Len(failed_files)
    /\ SubSeq(failed_files', 1, Len(failed_files)) = failed_files

\* C2: the Failure Ledger is written once, when the run is done and so after
\* the last document; what is written is the list of exactly the documents
\* whose run raised an error that left process_file, each once and in run
\* order, none of them a document whose run returned; during the run the
\* list only grows at its end.
C2_FailureLedger == []LedgerState /\ [][LedgerStep]_vars

\* a finished run with two documents, the first failed and in the written
\* ledger, the second completed and not in it
C2_Witness ==
    /\ pc = "done"
    /\ Len(files) = 2
    /\ failed_at[1] # "none"
    /\ failed_at[2] = "none"
    /\ attempts[2] = 1
    /\ failed_log = << <<files[1]>> >>

----------------------------------------------------------------------------
(* Properties of the Refinement Loop and of the Validation Agent *)

\* C3: a failure while enriching one material, an error raised by the
\* backend call itself included, does not abort the document: once
\* process_file is through with the document, its extracted snapshot is
\* written and the document is not in the Failure Ledger.
C3_RefinementFailureContained ==
    \A i \in 1..Len(files) :
        Finished(i) /\ failed_at[i] \in {"phases_call", "properties_call"}
            => /\ FileName(files[i]) \in DOMAIN extracted_json
               /\ files[i] \notin Range(failed_files)

\* C4: whenever the validation call raises, or its response is no structured
\* data for validate (prose, or data with a comment, which validate does not
\* strip), validate returns the database it was given, which is still the
\* database of the extracted snapshot.
C4_ValidationFailsSoft ==
    pc = "save_validated"
        /\ (val_response.raises \/ val_response.text \in {Garbage, Commented})
        => /\ validated_database = article_database
           /\ article_database = extracted_json[file_name]

\* validate has returned after a response it cannot parse, for a database of
\* two refined materials
C4_Witness ==
    /\ pc = "save_validated"
    /\ val_response = Returns(Commented)
    /\ Len(article_database.o) = 2
    /\ validated_database = article_database
    /\ variant = "multiple"

\* C5: a failure of the reload in validate does not leave validate: the
\* document's validated snapshot is still written, with the database of the
\* extracted snapshot, and the document is not in the Failure Ledger.
C5_ReloadFailureContained ==
    \A i \in 1..Len(files) :
        Finished(i) /\ failed_at[i] = "validate_reload"
            => /\ FileName(files[i]) \in DOMAIN validated_json
               /\ files[i] \notin Range(failed_files)

----------------------------------------------------------------------------
(* Properties of the Document Loader *)

\* C6: the Loader returns a text to process_file only when the parse has
\* yielded page text, a table or an image; the text it returns is not empty.
C6_LoaderFailsOnEmptyParse ==
    pc = "extraction_call"
        => /\ full_text # <<>>
           /\ ~EmptyParse(PdfOf(files[idx]))

\* C7: a document for which the Loader produced no usable text (the Loader
\* raised, or the parse yielded nothing) gets no backend call and no
\* snapshot, and is in the Failure Ledger once process_file is through.
C7_NoUsableTextSkippedAndRecorded ==
    \A i \in 1..Len(files) :
        attempts[i] = 1 /\ (failed_at[i] = "extract" \/ EmptyParse(PdfOf(files[i])))
            => /\ ~called[i]
               /\ FileName(files[i]) \notin DOMAIN extracted_json
               /\ FileName(files[i]) \notin DOMAIN validated_json
               /\ Finished(i) => files[i] \in Range(failed_files)

----------------------------------------------------------------------------
(* Properties of the Structuring Agent *)

\* what fix_json makes of parsed data: a single object becomes a list of one
Normalized(v) == IF v.t = "dict" THEN List(<<v>>) ELSE v

\* C8: whatever fix_json returns other than "no data" is a list of one or
\* more records.
C8_ReturnsOneOrMoreRecords ==
    fixed.done /\ fixed.value # None
        => /\ fixed.value.t = "list"
           /\ Len(fixed.value.a) >= 1
           /\ \A k \in 1..Len(fixed.value.a) : fixed.value.a[k].t = "dict"

\* C9: for a response that wraps structured data in a fenced block, with or
\* without commentary around the block, fix_json returns the data of the
\* block; with no fenced block the whole response is the payload.
C9_FencedPayloadReturned ==
    fixed.done /\ ~content.raises /\ content.payload.valid
               /\ content.comments = "none"
        => IF content.fence = "none" /\ (content.before # <<>> \/ content.after # <<>>)
           THEN fixed.value = None
           ELSE fixed.value = Normalized(content.payload.value)

\* C10: for a response whose payload (bare, or in a block tagged json) is
\* structured data but for single-line trailing comments, fix_json returns
\* the data without the comments.
C10_CommentsStripped ==
    fixed.done /\ ~content.raises /\ content.payload.valid
               /\ content.comments # "none"
               /\ \/ content.fence = "json"
                  \/ content.fence = "none" /\ content.before = <<>> /\ content.after = <<>>
        => fixed.value = Normalized(content.payload.value)

----------------------------------------------------------------------------
(* Properties of the callers of the Structuring Agent *)

\* the record of the material the Refinement Loop is at
material_data == article_database.o[mat][2]

HasField(record, field) == DictHas(record.o, Str(<<field>>))

C11_Step ==
    pc \in {"structure", "phases", "properties"} /\ fix_response' = Returns(Garbage)
        => /\ fix_json(fix_response') = None
           /\ article_database' = article_database
           /\ failed_files' = failed_files
           /\ failed_at' = failed_at
           /\ pc = "structure" =>
                 article_database' = Dict(<<>>) /\ pc' = "save_extracted"
           /\ pc = "phases" =>
                 /\ ~HasField(article_database'.o[mat][2], "phases")
                 /\ pc' = "properties_call"
           /\ pc = "properties" =>
                 /\ ~HasField(article_database'.o[mat][2], "properties")
                 /\ pc' \in {"phases_call", "save_extracted"}

\* C11: when the response fix_json gets is prose that cannot be parsed,
\* fix_json returns None and raises nothing, and the step of process_file
\* that called it leaves the database as it was: it stays empty after the
\* initial structuring, no phases field and no properties field is attached,
\* the document is not failed and process_file goes on to its next step.
C11_UnparsableAddsNothing == [][C11_Step]_vars

\* the phases of the second of two materials could not be parsed: its record
\* has no phases field and the loop is at its properties step
C11_Witness ==
    /\ pc = "properties_call"
    /\ mat = 2
    /\ fix_response = Returns(Garbage)
    /\ ~HasField(material_data, "phases")
    /\ HasField(material_data, "composition_processing")

\* C12: a response whose payload json.loads parses, an empty or null payload
\* included, never gets from fix_json the value None that an unparsable
\* response gets.
C12_ParseFailureDistinguishable ==
    fixed.done /\ ~content.raises /\ parsed_json(Outcome(content)).ok
        => fixed.value # None

----------------------------------------------------------------------------
(* Properties of the Refinement Loop *)

C13_Step ==
    pc \in {"phases", "properties"}
        => LET old == article_database.o
               new == article_database'.o
           IN  /\ Len(new) = Len(old)
               /\ \A m \in 1..Len(old) : new[m][1] = old[m][1]
               /\ \A m \in 1..Len(old) : m # mat => new[m] = old[m]
               /\ Len(new[mat][2].o) >= Len(old[mat][2].o)
               /\ SubSeq(new[mat][2].o, 1, Len(old[mat][2].o)) = old[mat][2].o
               /\ \A k \in (Len(old[mat][2].o) + 1)..Len(new[mat][2].o) :
                     new[mat][2].o[k][1] = Str(<<pc>>)

\* C13: a phases or properties step of the Refinement Loop changes nothing
\* of the database but the record of the material it is at, and of that
\* record it keeps every field with its value and adds at most the one field
\* of the step (phases, properties); the records of the other materials and
\* the keys of the database stay as they were.
C13_RefinementAdditive == [][C13_Step]_vars

\* two materials: the first got its phases and its properties, the second
\* got neither and still holds what structuring gave it
C13_Witness ==
    /\ pc = "save_extracted"
    /\ Len(article_database.o) = 2
    /\ HasField(article_database.o[1][2], "composition_processing")
    /\ HasField(article_database.o[1][2], "phases")
    /\ HasField(article_database.o[1][2], "properties")
    /\ Len(article_database.o[2][2].o) = 1

----------------------------------------------------------------------------
(* Properties of the normalized text *)

\* the atoms that open a section or an entry of the normalized text
HeaderAtoms == {"Page ", "Table ", "Images found:", "- "}

\* the sections and entries of a text in the order they stand in it: each
\* header with the number or the name that follows it
Outline(text) ==
    LET at == SelectSeq([i \in 1..Len(text) |-> i],
                        LAMBDA i : text[i] \in HeaderAtoms)
    IN  [k \in 1..Len(at) |->
            IF text[at[k]] = "Images found:" THEN <<"Images found:">>
            ELSE <<text[at[k]], text[at[k] + 1]>>]

\* the positions, counted from 0, of the frames of tabula that hold rows
FramesWithRows(pdf) ==
    IF pdf.tabula_raises THEN <<>>
    ELSE SelectSeq([i \in 1..Len(pdf.dfs) |-> i - 1],
                   LAMBDA i : pdf.dfs[i + 1] # <<>>)

\* C14 as stated: pages in page order, then the tables, then the image
\* listing; and a two-page document in which the Loader finds one table and
\* no image yields Page 1, Page 2, Table 0 and then Images found: with
\* nothing beneath it.
C14_TextOrder ==
    pc = "extracted" =>
        /\ \E np, nt \in 0..Len(full_text) : \E ni \in 0..Len(full_text) :
              /\ Len(Outline(full_text)) = np + nt + 1 + ni
              /\ \A k \in 1..np : Outline(full_text)[k] = <<"Page ", ToStr(k)>>
              /\ \A k \in (np + 1)..(np + nt) : Outline(full_text)[k][1] = "Table "
              /\ Outline(full_text)[np + nt + 1] = <<"Images found:">>
              /\ \A k \in (np + nt + 2)..(np + nt + 1 + ni) :
                    Outline(full_text)[k][1] = "- "
        /\ (Len(document.pages) = 2 /\ Len(FramesWithRows(document)) = 1
                /\ document.images = <<>>)
              => /\ Outline(full_text) = << <<"Page ", "1">>, <<"Page ", "2">>,
                                           <<"Table ", "0">>, <<"Images found:">> >>
                 /\ full_text[Len(full_text)] = "Images found:"

\* C14, amended: the text holds one section per page in page order, then one
\* section per frame of tabula that holds rows, tagged with the position of
\* the frame in tabula's list counted from 0 (frames without rows are left
\* out but counted, and no table is listed when tabula fails), then Images
\* found: and under it the file name of every image; a two-page document
\* whose only frame holds rows and that has no image yields Page 1, Page 2,
\* Table 0 and, as its last line, Images found:.
C14_TextOrderByFrameIndex ==
    pc = "extracted" =>
        /\ Outline(full_text) =
              [n \in 1..Len(document.pages) |-> <<"Page ", ToStr(n)>>]
              \o [k \in 1..Len(FramesWithRows(document)) |->
                     <<"Table ", ToStr(FramesWithRows(document)[k])>>]
              \o << <<"Images found:">> >>
              \o [k \in 1..Len(document.images) |-> <<"- ", document.images[k][2]>>]
        /\ (Len(document.pages) = 2 /\ Len(document.dfs) = 1
                /\ Len(FramesWithRows(document)) = 1 /\ document.images = <<>>)
              => /\ Outline(full_text) = << <<"Page ", "1">>, <<"Page ", "2">>,
                                           <<"Table ", "0">>, <<"Images found:">> >>
                 /\ full_text[Len(full_text)] = "Images found:"

\* the text of a two-page document with one table, the only frame of
\* tabula, and no image
C14_Witness ==
    /\ pc = "extracted"
    /\ Len(document.pages) = 2
    /\ document.dfs = << <<"[", "{", "}", "]">> >>
    /\ ~document.tabula_raises
    /\ document.images = <<>>
    /\ Outline(full_text) = << <<"Page ", "1">>, <<"Page ", "2">>,
                               <<"Table ", "0">>, <<"Images found:">> >>

----------------------------------------------------------------------------
(* Properties of the snapshots *)

\* a mapping from material identifiers to records
IsDatabase(v) ==
    /\ v.t = "dict"
    /\ \A i \in 1..Len(v.o) : v.o[i][1].t = "str" /\ v.o[i][2].t = "dict"

\* C15: every extracted snapshot and every validated snapshot on disk is a
\* mapping from material identifiers to records, whatever the validation
\* backend answered.
C15_SnapshotsAreMappings ==
    /\ \A k \in DOMAIN extracted_json : IsDatabase(extracted_json[k])
    /\ \A k \in DOMAIN validated_json : IsDatabase(validated_json[k])

----------------------------------------------------------------------------
(* Properties of the records against their schemas *)

\* every key of v is a field the schema declares, on every level; what stands
\* under a free-form or open-ended leaf (any, object or null, array or null)
\* is not looked into, and a leaf that takes a number, a string or null
\* declares no key
RECURSIVE Conforms(_, _)
Conforms(v, schema) ==
    IF v.t # "dict" THEN TRUE
    ELSE IF schema.leaf THEN schema.type # "number or string or null"
    ELSE \A i \in 1..Len(v.o) :
            /\ v.o[i][1].t = "str"
            /\ Len(v.o[i][1].s) = 1
            /\ v.o[i][1].s[1] \in DOMAIN schema.fields
            /\ Conforms(v.o[i][2], schema.fields[v.o[i][1].s[1]])

\* the schema fix_json was given for each field of a record
SchemaOf(field) ==
    CASE field = "composition_processing" -> composition_processing_schema
      [] field = "phases" -> phases_schema
      [] field = "properties" -> properties_schema

\* C16: every record in the database holds only keys its schema declares:
\* what was stored as composition_processing, phases or properties against
\* the schema fix_json was called with (multiple requests), the whole record
\* against the combined schema (one request).
C16_NoSchemaDrift ==
    \A m \in 1..Len(article_database.o) :
        LET record == article_database.o[m][2]
        IN  IF variant = "multiple"
            THEN \A field \in {"composition_processing", "phases", "properties"} :
                    HasField(record, field) =>
                        Conforms(DictGet(record.o, Str(<<field>>), None),
                                 SchemaOf(field))
            ELSE Conforms(record, combined_schema)

----------------------------------------------------------------------------
(* Properties of the order of the stages *)

\* the place of each step of process_file in the order Loader, Structuring,
\* Refinement, extracted snapshot, Validation, validated snapshot
StageOf(p) ==
    CASE p = "extract" -> 1
      [] p \in {"extraction_call", "structure"} -> 2
      [] p \in {"phases_call", "phases", "properties_call", "properties"} -> 3
      [] p = "save_extracted" -> 4
      [] p \in {"validate", "validation_call"} -> 5
      [] p = "save_validated" -> 6

InProcessFile(p) == p \notin {"loop", "done"}

C17_State ==
    /\ \A k \in DOMAIN validated_json : k \in DOMAIN extracted_json
    /\ pc \in {"validate", "validation_call", "save_validated"}
          => /\ file_name \in DOMAIN extracted_json
             /\ extracted_json[file_name] = article_database
    /\ \A i \in 1..Len(files) :
          failed_at[i] = "validate_reload"
              => FileName(files[i]) \in DOMAIN extracted_json

C17_Step ==
    /\ InProcessFile(pc) /\ InProcessFile(pc')
          => idx' = idx /\ StageOf(pc') >= StageOf(pc)
    /\ extracted_json' # extracted_json
          => /\ pc = "save_extracted"
             /\ extracted_json' = Write(extracted_json, file_name, article_database)
    /\ validated_json' # validated_json
          => /\ pc = "save_validated"
             /\ validated_json' = Write(validated_json, file_name, validated_database)
    /\ pc \in {"validate", "validation_call", "save_validated"}
          => extracted_json' = extracted_json

\* C17: within a document the steps of process_file only go forward through
\* Loader, Structuring, Refinement, extracted snapshot, Validation, validated
\* snapshot; the extracted snapshot is on disk, holding the database before
\* validation, when validate is called, no step of the validation or after it
\* writes it again, and no validated snapshot exists without its extracted
\* one: a document whose validation failed keeps its extracted snapshot.
C17_StageOrder == []C17_State /\ [][C17_Step]_vars

\* a run of two documents: the validation of the first failed at the reload
\* and its extracted snapshot is on disk without a validated one; the second
\* has both, and the validator changed its database
C17_Witness ==
    /\ pc = "done"
    /\ Len(files) = 2
    /\ failed_at[1] = "validate_reload"
    /\ FileName(files[1]) \in DOMAIN extracted_json
    /\ FileName(files[1]) \notin DOMAIN validated_json
    /\ FileName(files[2]) \in DOMAIN validated_json
    /\ validated_json[FileName(files[2])] # extracted_json[FileName(files[2])]

----------------------------------------------------------------------------
(* Properties of the order of the refinement steps *)

C18_State ==
    /\ pc = "phases"
          => /\ prompt = Prompt("phases", article_database.o[mat][1],
                                material_data, full_text)
             /\ ~HasField(prompt.material_data, "phases")
             /\ ~HasField(prompt.material_data, "properties")
    /\ pc = "properties"
          => /\ prompt = Prompt("properties", article_database.o[mat][1],
                                material_data, full_text)
             /\ HasField(prompt.material_data, "phases")
                    <=> Truthy(fix_json(fix_response))
             /\ ~HasField(prompt.material_data, "properties")

C18_Step ==
    /\ pc' = "properties_call" /\ pc # "properties_call"
          => pc = "phases" /\ mat' = mat
    /\ pc' = "properties" /\ pc # "properties"
          => pc = "properties_call" /\ mat' = mat
                /\ article_database' = article_database
    /\ pc' = "phases_call" /\ pc # "phases_call"
          => \/ pc = "structure" /\ mat' = 1
             \/ pc = "properties" /\ mat' = mat + 1

\* C18: the properties step of a material begins only when the phases step
\* of that material is through, whether it attached phases or got nothing
\* to attach, and the next material's phases step only after the properties
\* step; the properties prompt holds the material's record as the phases
\* step left it, with the phases field exactly when the phases step had
\* data to attach.
C18_PhasesBeforeProperties == []C18_State /\ [][C18_Step]_vars

\* the properties call of the second material has been made with a prompt
\* that holds the phases just attached
C18_Witness ==
    /\ pc = "properties"
    /\ mat = 2
    /\ prompt.kind = "properties"
    /\ HasField(prompt.material_data, "phases")
    /\ HasField(prompt.material_data, "composition_processing")
    /\ fix_response = Returns(OneObject)

----------------------------------------------------------------------------
(* Properties of the repair step *)

\* C19: a response whose payload, in a block tagged json or bare, is
\* structured data without comments gets from fix_json exactly that data (a
\* single object as a list of one), also when a string of the payload holds
\* two slashes.
C19_ValidPayloadNeverLost ==
    fixed.done /\ ~content.raises /\ content.payload.valid
               /\ content.comments = "none"
               /\ \/ content.fence = "json"
                  \/ content.fence = "none" /\ content.before = <<>>
                                            /\ content.after = <<>>
        => fixed.value = Normalized(content.payload.value)

----------------------------------------------------------------------------
(* Properties of the database build *)

\* the identifier of the n-th entry: its Material name, or the fallback
\* {document}_Sample_{n}
IdentifierOf(entry, n) ==
    DictGet(entry.o, Str(<<"Material">>), Str(file_name \o <<"_Sample_", ToStr(n)>>))

\* C20: the database built from the structured entries holds one record per
\* entry, each entry under its own key, the Material name or the fallback
\* identifier of its place, also when names repeat or a fallback identifier
\* equals a name.
C20_BuildLosesNoEntry ==
    pc = "built" =>
        /\ Len(article_database.o) = Len(fixed.value.a)
        /\ \A n \in 1..Len(fixed.value.a) :
              /\ article_database.o[n][1] = IdentifierOf(fixed.value.a[n], n)
              /\ article_database.o[n][2] =
                    IF variant = "multiple"
                    THEN Dict(<< <<Str(<<"composition_processing">>), fixed.value.a[n]>> >>)
                    ELSE fixed.value.a[n]

----------------------------------------------------------------------------
(* Properties of process_file on the shapes of a payload *)

\* C21: no document fails on the shape of what a structuring call parsed:
\* process_file raises nothing when it builds the database from the data
\* fix_json returned, so no document is in the Failure Ledger for it.
C21_PayloadShapeNeverFails ==
    \A i \in 1..Len(files) :
        /\ failed_at[i] # "structure"
        /\ files[i] \in Range(failed_files)
              => failed_at[i] \in {"extract", "extraction_call", "phases_call",
                                   "properties_call", "validate_reload"}

----------------------------------------------------------------------------
(* Properties of the artifact paths *)

C22_State ==
    \A i, j \in 1..Len(files) :
        i # j /\ EndsWithPdf(files[i]) /\ EndsWithPdf(files[j])
            => FileName(files[i]) # FileName(files[j])

C22_Step ==
    /\ pc = "extract" /\ result_json' # result_json
          => file_name \notin DOMAIN result_json
    /\ extracted_json' # extracted_json
          => file_name \notin DOMAIN extracted_json
    /\ validated_json' # validated_json
          => file_name \notin DOMAIN validated_json

\* C22: the .pdf entries of the directory have pairwise different document
\* identifiers, and a run of process_file writes its raw extraction, its
\* extracted snapshot and its validated snapshot to paths no earlier
\* document of the run has written to.
C22_DistinctArtifactPaths == []C22_State /\ [][C22_Step]_vars

====
